---- MODULE Spec2Model ----
(***************************************************************************)
(* Next.js + Supabase authentication template: the Route Guard            *)
(* (middleware), the server pages (ProtectedPage, LoginPage, Home), the    *)
(* client AuthForm and the AuthProvider auth-state listener.               *)
(*                                                                         *)
(* Strings on which the code computes (startsWith, includes, ===) are      *)
(* sequences of one-character strings.  A value of type `string | null'    *)
(* is a sequence of length at most one: <<>> is null, <<s>> is string s.   *)
(***************************************************************************)
EXTENDS Naturals, Sequences, FiniteSets

VARIABLES
    session,       \* the auth provider holds a valid session for the user
    req,           \* the HTTP request being served, and its response
    location,      \* the route the browser shows (<<>>: nothing loaded)
    query,         \* the query of the URL the browser shows
    pendingNav,    \* target of a router.push not yet committed, or null
    form,          \* React state of the AuthForm instance
    calls,         \* signInWithPassword calls awaiting their result
    log,           \* what the client did since the document was loaded
    subs,          \* active auth-state subscriptions at the auth client
    authProvider,  \* the AuthProvider instance
    nSubmits,      \* handleSignIn calls so far
    nEvents,       \* notifications of the provider so far
    nSubs          \* subscriptions made so far

client == <<location, query, pendingNav, form, calls, log, subs, authProvider,
            nSubmits, nEvents, nSubs>>

vars == <<session, req, location, query, pendingNav, form, calls, log,
          subs, authProvider, nSubmits, nEvents, nSubs>>

\* ---------------------------------------------------------------- bounds
MaxSubmits == 2

MaxEvents == 2

MaxSubs == 2

\* ------------------------------------------------------- string literals
PROTECTED == <<"/","p","r","o","t","e","c","t","e","d">>

AUTH_LOGIN == <<"/","a","u","t","h","/","l","o","g","i","n">>

ROOT == <<"/">>

PROTECTED_SUB == <<"/","p","r","o","t","e","c","t","e","d","/","x">>

STATIC_ASSET == <<"/","_","n","e","x","t","/","s","t","a","t","i","c","/","a">>

NEXT_STATIC == <<"_","n","e","x","t","/","s","t","a","t","i","c">>

NEXT_IMAGE == <<"_","n","e","x","t","/","i","m","a","g","e">>

FAVICON == <<"f","a","v","i","c","o","n",".","i","c","o">>

REDIRECT_TO == <<"r","e","d","i","r","e","c","t","T","o">>

INVALID_LOGIN == <<"I","n","v","a","l","i","d"," ","l","o","g","i","n"," ","c","r","e","d","e","n","t","i","a","l","s">>

EMAIL_NOT_CONFIRMED == <<"E","m","a","i","l"," ","n","o","t"," ","c","o","n","f","i","r","m","e","d">>

JWT == <<"J","W","T">>

FAILED_TO_FETCH == <<"F","a","i","l","e","d"," ","t","o"," ","f","e","t","c","h">>

MSG_INVALID == <<"I","n","v","a","l","i","d"," ","e","m","a","i","l"," ","o","r"," ","p","a","s","s","w","o","r","d">>

MSG_CONFIRM == <<"P","l","e","a","s","e"," ","c","o","n","f","i","r","m"," ","y","o","u","r"," ","e","m","a","i","l"," ","a","d","d","r","e","s","s">>

MSG_EXPIRED == <<"Y","o","u","r"," ","s","e","s","s","i","o","n"," ","h","a","s"," ","e","x","p","i","r","e","d","."," ","P","l","e","a","s","e"," ","l","o","g"," ","i","n"," ","a","g","a","i","n",".">>

MSG_GENERIC == <<"A","n"," ","a","u","t","h","e","n","t","i","c","a","t","i","o","n"," ","e","r","r","o","r"," ","o","c","c","u","r","r","e","d">>

\* ------------------------------------------------------ string functions
\* String.prototype.startsWith
StartsWith(s, prefix) ==
    /\ Len(prefix) <= Len(s)
    /\ SubSeq(s, 1, Len(prefix)) = prefix

\* String.prototype.includes
Includes(s, part) ==
    \E i \in 1..(Len(s) + 1) :
        /\ i + Len(part) - 1 <= Len(s)
        /\ SubSeq(s, i, i + Len(part) - 1) = part

\* JavaScript truthiness of a `string | null': null and "" are falsy.
Truthy(v) == v # <<>> /\ v[1] # <<>>

\* ------------------------------------------------------- URLSearchParams
\* A query is a sequence of <<name, value>> pairs.
RECURSIVE DropName(_, _)
DropName(search, name) ==
    IF search = <<>> THEN <<>>
    ELSE IF Head(search)[1] = name THEN DropName(Tail(search), name)
    ELSE <<Head(search)>> \o DropName(Tail(search), name)

\* URLSearchParams.get: the first value of the name, or null.
RECURSIVE SearchParamsGet(_, _)
SearchParamsGet(search, name) ==
    IF search = <<>> THEN <<>>
    ELSE IF Head(search)[1] = name THEN <<Head(search)[2]>>
    ELSE SearchParamsGet(Tail(search), name)

\* URLSearchParams.set: overwrite the first pair of the name and drop the
\* others, or append the pair when the name is absent.
RECURSIVE SearchParamsSet(_, _, _)
SearchParamsSet(search, name, value) ==
    IF search = <<>> THEN <<<<name, value>>>>
    ELSE IF Head(search)[1] = name
         THEN <<<<name, value>>>> \o DropName(Tail(search), name)
    ELSE <<Head(search)>> \o SearchParamsSet(Tail(search), name, value)

\* ------------------------------------------------------------ the server
\* Paths and queries of the requests the browser is asked to load.
Paths == {ROOT, AUTH_LOGIN, PROTECTED, PROTECTED_SUB, STATIC_ASSET}

Queries == {<<>>, <<<<REDIRECT_TO, ROOT>>>>}

NoUrl == [pathname |-> <<>>, search |-> <<>>]

NoResponse ==
    [kind |-> "none", by |-> "none", url |-> NoUrl, page |-> "none",
     welcome |-> FALSE, profile |-> FALSE, form |-> FALSE]

IdleRequest ==
    [pc |-> "idle", path |-> <<>>, search |-> <<>>, hops |-> 0,
     guard |-> "none", guardRuns |-> 0, guardSession |-> "unread",
     pageSession |-> "unread", profileError |-> FALSE, logged |-> 0,
     reads |-> {}, res |-> NoResponse]

\* supabase.auth.getSession(): the session of the request, or none.
getSession == IF session THEN "present" ELSE "absent"

\* config.matcher: '/((?!_next/static|_next/image|favicon.ico).*)'.
\* The dot of favicon.ico is a regular-expression dot.
matcher(path) ==
    /\ Len(path) >= 1
    /\ path[1] = "/"
    /\ LET rest == Tail(path) IN
       /\ ~ StartsWith(rest, NEXT_STATIC)
       /\ ~ StartsWith(rest, NEXT_IMAGE)
       /\ ~ ( /\ Len(rest) >= Len(FAVICON)
              /\ SubSeq(rest, 1, 7) = SubSeq(FAVICON, 1, 7)
              /\ SubSeq(rest, 9, 11) = SubSeq(FAVICON, 9, 11) )

GuardRedirects_AnyPath(sess, path) == sess = "absent"

\* The condition of the Route Guard:
\* !session && req.nextUrl.pathname.startsWith('/protected')
GuardRedirects(sess, path) ==
    sess = "absent" /\ StartsWith(path, PROTECTED)

GuardRedirectUrl_Append(path, search) ==
    [pathname |-> AUTH_LOGIN,
     search   |-> search \o <<<<REDIRECT_TO, path>>>>]

\* The redirect URL of the Route Guard: a clone of the request URL with the
\* pathname replaced and the redirectTo parameter set.
GuardRedirectUrl(path, search) ==
    [pathname |-> AUTH_LOGIN,
     search   |-> SearchParamsSet(search, REDIRECT_TO, path)]

\* redirect(path) of next/navigation: ends the render with a redirect.
redirect(by, pathname) ==
    [NoResponse EXCEPT !.kind = "redirect", !.by = by,
                       !.url = [pathname |-> pathname, search |-> <<>>]]

\* The file-system routes of the app directory.
Route(path) ==
    IF path = ROOT THEN "Home"
    ELSE IF path = AUTH_LOGIN THEN "LoginPage"
    ELSE IF path = PROTECTED THEN "ProtectedPage"
    ELSE IF ~ matcher(path) THEN "asset"
    ELSE "notFound"

\* The browser asks for a document or an asset.
Navigate ==
    /\ req.pc = "idle"
    /\ \E path \in Paths, search \in Queries :
          req' = [IdleRequest EXCEPT
                    !.pc = IF matcher(path) THEN "middleware" ELSE "page",
                    !.path = path, !.search = search]
    /\ UNCHANGED <<session, client>>

\* middleware(req): the Route Guard.
middleware ==
    /\ req.pc = "middleware"
    /\ LET sess == getSession IN
       req' = IF GuardRedirects(sess, req.path)
              THEN [req EXCEPT !.pc = "done", !.guard = "redirect",
                               !.guardRuns = @ + 1, !.guardSession = sess,
                               !.reads = @ \cup {sess},
                               !.res = [NoResponse EXCEPT
                                          !.kind = "redirect",
                                          !.by = "middleware",
                                          !.url = GuardRedirectUrl(req.path, req.search)]]
              ELSE [req EXCEPT !.pc = "page", !.guard = "next",
                               !.guardRuns = @ + 1, !.guardSession = sess,
                               !.reads = @ \cup {sess}]
    /\ UNCHANGED <<session, client>>

PageRedirects_Inverted(sess) == sess = "present"

PageRedirects_Never(sess) == FALSE

\* The page-level check of ProtectedPage: if (!session) redirect(...)
PageRedirects(sess) == sess = "absent"

\* ProtectedPage up to the profile query: session read and check.
ProtectedPage ==
    /\ req.pc = "page"
    /\ Route(req.path) = "ProtectedPage"
    /\ LET sess == getSession IN
       req' = IF PageRedirects(sess)
              THEN [req EXCEPT !.pc = "done", !.pageSession = sess,
                               !.reads = @ \cup {sess},
                               !.res = redirect("ProtectedPage", AUTH_LOGIN)]
              ELSE [req EXCEPT !.pc = "profile", !.pageSession = sess,
                               !.reads = @ \cup {sess}]
    /\ UNCHANGED <<session, client>>

\* The results of the profiles query: the row, or an error and no data.
ProfileResults ==
    {[data |-> "row", error |-> FALSE], [data |-> "null", error |-> TRUE]}

ProfileRender_Abort(r, result) ==
    [r EXCEPT !.pc = "done",
              !.profileError = result.error,
              !.logged = IF result.error THEN @ + 1 ELSE @,
              !.res = IF result.error
                      THEN [NoResponse EXCEPT !.kind = "error", !.by = "ProtectedPage"]
                      ELSE [NoResponse EXCEPT
                              !.kind = "render", !.by = "ProtectedPage",
                              !.page = "ProtectedPage", !.welcome = TRUE,
                              !.profile = TRUE]]

\* What ProtectedPage does with the result of the profile query.
ProfileRender(r, result) ==
    [r EXCEPT !.pc = "done",
              !.profileError = result.error,
              !.logged = IF result.error THEN @ + 1 ELSE @,
              !.res = [NoResponse EXCEPT
                         !.kind = "render", !.by = "ProtectedPage",
                         !.page = "ProtectedPage", !.welcome = TRUE,
                         !.profile = (result.data # "null")]]

\* ProtectedPage from the profile query to the returned markup.
ProtectedPageProfile ==
    /\ req.pc = "profile"
    /\ \E result \in ProfileResults : req' = ProfileRender(req, result)
    /\ UNCHANGED <<session, client>>

LoginRedirects_Inverted(sess) == sess = "absent"

LoginRedirects_Always(sess) == TRUE

\* The check of LoginPage: if (session) redirect('/protected')
LoginRedirects(sess) == sess = "present"

\* LoginPage: if (session) redirect('/protected'), else the AuthForm.
LoginPage ==
    /\ req.pc = "page"
    /\ Route(req.path) = "LoginPage"
    /\ LET sess == getSession IN
       req' = IF LoginRedirects(sess)
              THEN [req EXCEPT !.pc = "done", !.pageSession = sess,
                               !.reads = @ \cup {sess},
                               !.res = redirect("LoginPage", PROTECTED)]
              ELSE [req EXCEPT !.pc = "done", !.pageSession = sess,
                               !.reads = @ \cup {sess},
                               !.res = [NoResponse EXCEPT
                                          !.kind = "render", !.by = "LoginPage",
                                          !.page = "LoginPage", !.form = TRUE]]
    /\ UNCHANGED <<session, client>>

\* Home: static markup, no session read.
Home ==
    /\ req.pc = "page"
    /\ Route(req.path) = "Home"
    /\ req' = [req EXCEPT !.pc = "done",
                          !.res = [NoResponse EXCEPT !.kind = "render",
                                     !.by = "Home", !.page = "Home"]]
    /\ UNCHANGED <<session, client>>

\* Paths without a page: a static asset, or the framework's not-found page.
NoPage ==
    /\ req.pc = "page"
    /\ Route(req.path) \in {"asset", "notFound"}
    /\ req' = [req EXCEPT !.pc = "done",
                          !.res = [NoResponse EXCEPT !.kind = Route(req.path),
                                     !.by = "next"]]
    /\ UNCHANGED <<session, client>>

\* ------------------------------------------------------------ the client
Entry(src, id, op, arg, live) ==
    [src |-> src, id |-> id, op |-> op, arg |-> arg, live |-> live]

NoForm ==
    [mounted |-> FALSE, email |-> "", password |-> "",
     error |-> <<>>, loading |-> FALSE]

\* useState initial values of a newly mounted AuthForm.
FreshForm == [NoForm EXCEPT !.mounted = TRUE]

\* The calls of an instance that has been unmounted go on without it.
Abandon(cs) == {[c EXCEPT !.mine = FALSE] : c \in cs}

\* RootLayout: the client components around the page's own (children).
RootLayout(children) == children

\* The client components a rendered page contains.
PageComponents(res) == IF res.form THEN {"AuthForm"} ELSE {}

\* Where a navigation to path ends for a session that stays as it is:
\* the Route Guard and the page checks applied to the path.
Guarded(path, sess) ==
    IF matcher(path) /\ GuardRedirects(sess, path) THEN AUTH_LOGIN
    ELSE IF Route(path) = "ProtectedPage" /\ PageRedirects(sess) THEN AUTH_LOGIN
    ELSE IF Route(path) = "LoginPage" /\ LoginRedirects(sess) THEN PROTECTED
    ELSE path

Resolve(path, sess) == Guarded(Guarded(path, sess), sess)

\* The query of the URL such a navigation ends on: a pushed path has none,
\* the Route Guard's redirect adds redirectTo, a page's redirect has none.
ResolveSearch(path, sess) ==
    IF matcher(path) /\ GuardRedirects(sess, path)
    THEN GuardRedirectUrl(path, <<>>).search
    ELSE <<>>

\* The queries '/auth/login' is loaded with: those of a direct navigation
\* and those the Route Guard's redirect leaves.
LoginQueries ==
    Queries \cup {GuardRedirectUrl(p, q).search :
                     p \in {PROTECTED, PROTECTED_SUB}, q \in Queries}

SignInTarget_ReturnTo(q) ==
    IF SearchParamsGet(q, REDIRECT_TO) = <<>> THEN PROTECTED
    ELSE SearchParamsGet(q, REDIRECT_TO)[1]

\* router.push('/protected'): where the form navigates after a sign-in,
\* on a login URL with query q.
SignInTarget(q) == PROTECTED

\* The browser follows a redirect response with a new request.
FollowRedirect ==
    /\ req.pc = "done"
    /\ req.res.kind = "redirect"
    /\ req' = [IdleRequest EXCEPT
                 !.pc = IF matcher(req.res.url.pathname) THEN "middleware" ELSE "page",
                 !.path = req.res.url.pathname,
                 !.search = req.res.url.search,
                 !.hops = req.hops + 1,
                 !.reads = req.reads]
    /\ UNCHANGED <<session, client>>

\* The browser replaces the document by a rendered page: every client
\* component of the old document is gone, calls in flight are abandoned.
BrowserLoad ==
    /\ req.pc = "done"
    /\ req.res.kind \in {"render", "notFound"}
    /\ req' = IdleRequest
    /\ location' = req.path
    /\ query' = req.search
    /\ pendingNav' = <<>>
    /\ form' = IF "AuthForm" \in RootLayout(PageComponents(req.res))
               THEN FreshForm ELSE NoForm
    /\ authProvider' = [mounted |-> "AuthProvider" \in RootLayout(PageComponents(req.res)),
                        subscription |-> 0]
    /\ subs' = {}
    /\ calls' = {}
    /\ log' = <<>>
    /\ UNCHANGED <<session, nSubmits, nEvents, nSubs>>

\* A static asset arrives: the document stays.
AssetLoaded ==
    /\ req.pc = "done"
    /\ req.res.kind = "asset"
    /\ req' = IdleRequest
    /\ UNCHANGED <<session, client>>

\* The router commits a pushed navigation; the target is rendered behind
\* the same guards as a document request.
RouterCommit ==
    /\ pendingNav # <<>>
    /\ LET target == Resolve(pendingNav[1], getSession) IN
       /\ location' = target
       /\ query' = ResolveSearch(pendingNav[1], getSession)
       /\ form' = IF target = AUTH_LOGIN
                  THEN (IF form.mounted THEN form ELSE FreshForm)
                  ELSE NoForm
       /\ calls' = IF target = AUTH_LOGIN /\ form.mounted THEN calls
                   ELSE Abandon(calls)
    /\ pendingNav' = <<>>
    /\ UNCHANGED <<session, req, log, subs, authProvider,
                   nSubmits, nEvents, nSubs>>

\* ----------------------------------------------------------- the AuthForm
Emails == {"user@example.com", "new@example.com"}

Passwords == {"secret", "wrong"}

\* onChange of the email input: setEmail(e.target.value)
setEmail ==
    /\ form.mounted
    /\ \E v \in Emails : form' = [form EXCEPT !.email = v]
    /\ UNCHANGED <<session, req, location, query, pendingNav, calls, log, subs,
                   authProvider, nSubmits, nEvents, nSubs>>

\* onChange of the password input: setPassword(e.target.value)
setPassword ==
    /\ form.mounted
    /\ \E v \in Passwords : form' = [form EXCEPT !.password = v]
    /\ UNCHANGED <<session, req, location, query, pendingNav, calls, log, subs,
                   authProvider, nSubmits, nEvents, nSubs>>

\* The submit control: <button type="submit" disabled={loading}>
SubmitDisabled(f) == f.loading

\* What supabase.auth.signInWithPassword can answer: the provider's verdict
\* on the credentials, or a failure of the call itself, which is thrown.
signInWithPassword(email, password) ==
    { [kind |-> "thrown", message |-> FAILED_TO_FETCH] } \cup
    ( IF password # "secret"
      THEN { [kind |-> "error", message |-> INVALID_LOGIN] }
      ELSE IF email = "new@example.com"
      THEN { [kind |-> "error", message |-> EMAIL_NOT_CONFIRMED] }
      ELSE { [kind |-> "ok", message |-> <<>>] } )

\* utils/errors.ts handleAuthError: the user-facing AuthError.
handleAuthError(message) ==
    IF message = INVALID_LOGIN
    THEN [message |-> MSG_INVALID, code |-> "INVALID_CREDENTIALS"]
    ELSE IF Includes(message, EMAIL_NOT_CONFIRMED)
    THEN [message |-> MSG_CONFIRM, code |-> "EMAIL_NOT_CONFIRMED"]
    ELSE IF Includes(message, JWT)
    THEN [message |-> MSG_EXPIRED, code |-> "SESSION_EXPIRED"]
    ELSE [message |-> MSG_GENERIC, code |-> "AUTH_ERROR"]

Throws_OnlyThrown(r) == r.kind = "thrown"

\* The try block ends in the catch: the call threw, or it returned an
\* error, which `if (error) throw error' throws.
Throws(r) == r.kind # "ok"

CaughtErrorText_Generic(message) == MSG_GENERIC

CaughtErrorText_Translated(message) == handleAuthError(message).message

\* catch (error) { setError(error.message) }: the text put in the error state.
CaughtErrorText(message) == message

AuthStateCallback_PushFirst(event, id) ==
    LET live == authProvider.mounted /\ authProvider.subscription = id IN
    (IF event = "SIGNED_IN"
     THEN <<Entry("listener", id, "refresh", <<>>, live)>> ELSE <<>>)
    \o
    (IF event = "SIGNED_OUT"
     THEN <<Entry("listener", id, "push", AUTH_LOGIN, live),
            Entry("listener", id, "refresh", <<>>, live)>>
     ELSE <<>>)

\* The callback AuthProvider gives to onAuthStateChange, run for
\* subscription id: what it asks of the router.
AuthStateCallback(event, id) ==
    LET live == authProvider.mounted /\ authProvider.subscription = id IN
    (IF event = "SIGNED_IN"
     THEN <<Entry("listener", id, "refresh", <<>>, live)>> ELSE <<>>)
    \o
    (IF event = "SIGNED_OUT"
     THEN <<Entry("listener", id, "refresh", <<>>, live),
            Entry("listener", id, "push", AUTH_LOGIN, live)>>
     ELSE <<>>)

\* The auth client notifies the subscriptions 1..k that are active.
RECURSIVE NotifyAll(_, _)
NotifyAll(event, k) ==
    IF k = 0 THEN <<>>
    ELSE NotifyAll(event, k - 1) \o
         (IF k \in subs THEN AuthStateCallback(event, k) ELSE <<>>)

\* The target of the last router.push among the entries, or the old one.
RECURSIVE LastPush(_, _)
LastPush(entries, old) ==
    IF entries = <<>> THEN old
    ELSE IF entries[Len(entries)].op = "push" THEN <<entries[Len(entries)].arg>>
    ELSE LastPush(SubSeq(entries, 1, Len(entries) - 1), old)

SubmitState_KeepError(f) == [f EXCEPT !.loading = TRUE]

SubmitState_NoLoading(f) == [f EXCEPT !.error = <<>>]

\* setLoading(true); setError(null): the form state a submit leaves before
\* it awaits the provider.
SubmitState(f) == [f EXCEPT !.loading = TRUE, !.error = <<>>]

\* <form onSubmit={handleSignIn}>: the handler of the form's submit event
\* up to the await. The handler itself does not look at the loading flag.
onSubmit ==
    /\ form.mounted
    /\ form.email # "" /\ form.password # ""
    /\ nSubmits < MaxSubmits
    /\ nSubmits' = nSubmits + 1
    /\ form' = SubmitState(form)
    /\ calls' = calls \cup {[id |-> nSubmits + 1, mine |-> TRUE,
                             email |-> form.email, password |-> form.password]}
    /\ log' = Append(log, Entry("form", nSubmits + 1, "signIn", <<>>, TRUE))
    /\ UNCHANGED <<session, req, location, query, pendingNav, subs, authProvider,
                   nEvents, nSubs>>

\* A submit through the submit button, which is disabled while loading.
handleSignIn ==
    /\ ~ SubmitDisabled(form)
    /\ onSubmit

\* A submit event that reaches the form while its button is disabled
\* (form.requestSubmit(), a submit event dispatched at the form): only the
\* button carries disabled={loading}, the form runs the handler again.
requestSubmit ==
    /\ SubmitDisabled(form)
    /\ onSubmit

LoadingAfter_TryOnly(r) == Throws(r)

\* finally { setLoading(false) }: the loading flag once the call is
\* answered by r, whether the try block ended normally or in the catch.
LoadingAfter(r) == FALSE

AfterAnswer_Retry(cs, c, r) == IF r.kind = "thrown" THEN cs ELSE cs \ {c}

\* The calls in flight once call c is answered by r: the handler ends with
\* the finally block and issues no further call, whatever the answer.
AfterAnswer(cs, c, r) == cs \ {c}

\* handleSignIn after the await: try, catch and finally.  State setters of
\* an instance that is no longer mounted do nothing.
signInSettled ==
    \E c \in calls : \E r \in signInWithPassword(c.email, c.password) :
       LET mine == c.mine
           done ==
             <<Entry("form", c.id, r.kind, r.message, mine)>>
             \o (IF r.kind = "ok" THEN NotifyAll("SIGNED_IN", nSubs) ELSE <<>>)
             \o (IF Throws(r)
                 THEN <<Entry("form", c.id, "setError", CaughtErrorText(r.message), mine)>>
                 ELSE <<Entry("form", c.id, "refresh", <<>>, mine),
                        Entry("form", c.id, "push", SignInTarget(query), mine)>>)
       IN
       /\ calls' = AfterAnswer(calls, c, r)
       /\ session' = IF r.kind = "ok" THEN TRUE ELSE session
       /\ log' = log \o done
       /\ pendingNav' = LastPush(done, pendingNav)
       /\ form' = IF ~ mine THEN form
                  ELSE IF Throws(r)
                  THEN [form EXCEPT !.error = <<CaughtErrorText(r.message)>>,
                                    !.loading = LoadingAfter(r)]
                  ELSE [form EXCEPT !.loading = LoadingAfter(r)]
       /\ UNCHANGED <<req, location, query, subs, authProvider,
                      nSubmits, nEvents, nSubs>>

\* ------------------------------------------- the provider's notifications
Events == {"SIGNED_IN", "SIGNED_OUT", "TOKEN_REFRESHED"}

\* The provider changes the session on its own (sign-out or sign-in
\* elsewhere, expiry, token refresh) and notifies the subscriptions.
AuthStateChange ==
    /\ nEvents < MaxEvents
    /\ nEvents' = nEvents + 1
    /\ \E event \in Events :
          LET done == NotifyAll(event, nSubs) IN
          /\ session' = IF event = "SIGNED_OUT" THEN FALSE
                        ELSE IF event = "SIGNED_IN" THEN TRUE ELSE session
          /\ log' = log \o done
          /\ pendingNav' = LastPush(done, pendingNav)
    /\ UNCHANGED <<req, location, query, form, calls, subs, authProvider,
                   nSubmits, nSubs>>

\* -------------------------------------------------------- the AuthProvider
unsubscribe_Noop(active, id) == active

\* subscription.unsubscribe()
unsubscribe(active, id) == active \ {id}

\* A parent renders <AuthProvider>; its effect has not run yet.
AuthProviderMount ==
    /\ location # <<>>
    /\ ~ authProvider.mounted
    /\ nSubs < MaxSubs
    /\ authProvider' = [mounted |-> TRUE, subscription |-> 0]
    /\ UNCHANGED <<session, req, location, query, pendingNav, form, calls, log, subs,
                   nSubmits, nEvents, nSubs>>

\* useEffect: the first run subscribes; a run after a change of [router,
\* supabase] first runs the cleanup of the previous run.
AuthProviderEffect ==
    /\ authProvider.mounted
    /\ nSubs < MaxSubs
    /\ nSubs' = nSubs + 1
    /\ subs' = (IF authProvider.subscription = 0 THEN subs
                ELSE unsubscribe(subs, authProvider.subscription))
               \cup {nSubs + 1}
    /\ authProvider' = [authProvider EXCEPT !.subscription = nSubs + 1]
    /\ UNCHANGED <<session, req, location, query, pendingNav, form, calls, log,
                   nSubmits, nEvents>>

\* The component is torn down: the cleanup of the last effect run.
AuthProviderUnmount ==
    /\ authProvider.mounted
    /\ authProvider.subscription # 0
    /\ subs' = unsubscribe(subs, authProvider.subscription)
    /\ authProvider' = [mounted |-> FALSE, subscription |-> 0]
    /\ UNCHANGED <<session, req, location, query, pendingNav, form, calls, log,
                   nSubmits, nEvents, nSubs>>

\* ------------------------------------------------------ the specifications
NoAuthProvider == [mounted |-> FALSE, subscription |-> 0]

\* Nothing is loaded yet; the user may hold a session from an earlier visit.
Init ==
    /\ session \in BOOLEAN
    /\ req = IdleRequest
    /\ location = <<>>
    /\ query = <<>>
    /\ pendingNav = <<>>
    /\ form = NoForm
    /\ calls = {}
    /\ log = <<>>
    /\ subs = {}
    /\ authProvider = NoAuthProvider
    /\ nSubmits = 0
    /\ nEvents = 0
    /\ nSubs = 0

\* The requests, the pages and the documents the browser loads.
Next ==
    \/ Navigate
    \/ middleware
    \/ ProtectedPage
    \/ ProtectedPageProfile
    \/ LoginPage
    \/ Home
    \/ NoPage
    \/ FollowRedirect
    \/ BrowserLoad
    \/ AssetLoaded
    \/ AuthStateChange

Spec == Init /\ [][Next]_vars

\* The application while the session changes by sign-in only: the requests
\* and the form of the documents they load.
AppNext ==
    \/ Navigate
    \/ middleware
    \/ ProtectedPage
    \/ ProtectedPageProfile
    \/ LoginPage
    \/ Home
    \/ NoPage
    \/ FollowRedirect
    \/ BrowserLoad
    \/ AssetLoaded
    \/ setEmail
    \/ setPassword
    \/ handleSignIn
    \/ signInSettled
    \/ RouterCommit

AppSpec == Init /\ [][AppNext]_vars

\* The AuthForm from the moment LoginPage has been loaded (BrowserLoad of
\* its render): the session may since have changed.
FormInit ==
    /\ session \in BOOLEAN
    /\ req = IdleRequest
    /\ location = AUTH_LOGIN
    /\ query \in LoginQueries
    /\ pendingNav = <<>>
    /\ form = FreshForm
    /\ calls = {}
    /\ log = <<>>
    /\ subs = {}
    /\ authProvider = NoAuthProvider
    /\ nSubmits = 0
    /\ nEvents = 0
    /\ nSubs = 0

FormNext ==
    \/ setEmail
    \/ setPassword
    \/ handleSignIn
    \/ signInSettled
    \/ RouterCommit
    \/ AuthStateChange

FormSpec == FormInit /\ [][FormNext]_vars

\* The AuthForm with every submit event the form element can receive.
SubmitNext ==
    \/ FormNext
    \/ requestSubmit

SubmitSpec == FormInit /\ [][SubmitNext]_vars

\* An AuthProvider rendered by a parent on a loaded page.
ProviderInit ==
    /\ session \in BOOLEAN
    /\ req = IdleRequest
    /\ location \in {ROOT, PROTECTED}
    /\ query = <<>>
    /\ pendingNav = <<>>
    /\ form = NoForm
    /\ calls = {}
    /\ log = <<>>
    /\ subs = {}
    /\ authProvider = NoAuthProvider
    /\ nSubmits = 0
    /\ nEvents = 0
    /\ nSubs = 0

ProviderNext ==
    \/ AuthProviderMount
    \/ AuthProviderEffect
    \/ AuthProviderUnmount
    \/ AuthStateChange
    \/ RouterCommit

ProviderSpec == ProviderInit /\ [][ProviderNext]_vars

\* The AuthForm of the login page, its fields filled in, inside an
\* AuthProvider whose effect has run: the listener is subscribed.
ClientInit ==
    /\ session \in BOOLEAN
    /\ req = IdleRequest
    /\ location = AUTH_LOGIN
    /\ query = <<>>
    /\ pendingNav = <<>>
    /\ \E e \in Emails, p \in Passwords :
          form = [FreshForm EXCEPT !.email = e, !.password = p]
    /\ calls = {}
    /\ log = <<>>
    /\ subs = {1}
    /\ authProvider = [mounted |-> TRUE, subscription |-> 1]
    /\ nSubmits = 0
    /\ nEvents = 0
    /\ nSubs = 1

ClientNext ==
    \/ handleSignIn
    \/ signInSettled
    \/ RouterCommit
    \/ AuthStateChange

ClientSpec == ClientInit /\ [][ClientNext]_vars

\* ----------------------------------------------------------------- claims
\* C1: a request to a path starting with '/protected' that reaches the Route
\* Guard without a session is answered by a redirect to '/auth/login' whose
\* redirectTo parameter is the requested path.
C1_GuardRedirectCarriesPath ==
    ( /\ req.pc = "done"
      /\ StartsWith(req.path, PROTECTED)
      /\ req.guardSession = "absent" )
    => /\ req.res.kind = "redirect"
       /\ req.res.url.pathname = AUTH_LOGIN
       /\ SearchParamsGet(req.res.url.search, REDIRECT_TO) = <<req.path>>

C1_Witness ==
    /\ req.pc = "done"
    /\ req.path = PROTECTED_SUB
    /\ req.search = <<<<REDIRECT_TO, ROOT>>>>
    /\ req.guardSession = "absent"
    /\ req.res.kind = "redirect"

\* C2: a request to a protected path for which the Route Guard and the page
\* both read a session passes the guard, is never redirected, and on the
\* route of ProtectedPage gets the protected content.
C2_SessionRendersProtected ==
    ( /\ req.pc = "done"
      /\ StartsWith(req.path, PROTECTED)
      /\ req.guardSession = "present"
      /\ req.pageSession # "absent" )
    => /\ req.guard = "next"
       /\ req.res.kind # "redirect"
       /\ Route(req.path) = "ProtectedPage"
            => /\ req.pageSession = "present"
               /\ req.res.kind = "render"
               /\ req.res.page = "ProtectedPage"
               /\ req.res.welcome

C2_Witness ==
    /\ req.pc = "done"
    /\ req.path = PROTECTED
    /\ req.guardSession = "present"
    /\ req.pageSession = "present"
    /\ req.res.kind = "render"
    /\ req.hops = 0

\* C3: the protected page is rendered, or on its way to be rendered, only
\* when the session the page itself read was present, whatever the Route
\* Guard had read before.
C3_RenderImpliesPageSession ==
    ( \/ req.pc = "profile"
      \/ req.res.page = "ProtectedPage" )
    => req.pageSession = "present"

C3_Witness ==
    /\ req.pc = "done"
    /\ req.res.kind = "render"
    /\ req.res.page = "ProtectedPage"
    /\ req.res.profile
    /\ ~ session

\* C9: the Route Guard runs once for a request the matcher selects, and it
\* redirects exactly when the session it read is absent and the path starts
\* with '/protected'; otherwise it passes the request on.  It does not run
\* for the paths the matcher leaves out.
C9_GuardDecision ==
    /\ req.pc \in {"idle", "middleware"} => req.guardRuns = 0
    /\ req.pc \in {"page", "profile", "done"} =>
         IF matcher(req.path)
         THEN /\ req.guardRuns = 1
              /\ req.guard \in {"redirect", "next"}
              /\ req.guard = "redirect"
                   <=> (req.guardSession = "absent" /\ StartsWith(req.path, PROTECTED))
              /\ req.guard = "redirect"
                   => (req.pc = "done" /\ req.res.kind = "redirect"
                       /\ req.res.by = "middleware")
              /\ req.guard = "next" => req.res.by # "middleware"
         ELSE /\ req.guardRuns = 0
              /\ req.guard = "none"
              /\ req.res.kind # "redirect"

C9_Witness ==
    /\ req.pc = "done"
    /\ req.path = AUTH_LOGIN
    /\ req.guardSession = "absent"
    /\ req.guard = "next"
    /\ req.guardRuns = 1

\* C10: when the profile query of ProtectedPage fails, the error is logged
\* once and the page is still rendered with the welcome line and without the
\* profile section: no redirect, no aborted render.
C10_ProfileErrorStillRenders ==
    (req.pc = "done" /\ req.profileError)
    => /\ req.pageSession = "present"
       /\ req.logged = 1
       /\ req.res.kind = "render"
       /\ req.res.page = "ProtectedPage"
       /\ req.res.welcome
       /\ ~ req.res.profile

C10_Witness ==
    /\ req.pc = "done"
    /\ req.profileError
    /\ req.logged = 1
    /\ req.res.kind = "render"

\* The log entries the step adds.
NewEntries == SubSeq(log', Len(log) + 1, Len(log'))

\* The call is answered in the step.
SettledNow(c) == c \in calls /\ \A d \in calls' : d.id # c.id

\* The entry of the step that records the provider's answer to the call.
AnswerNow(c, e) ==
    /\ e.src = "form"
    /\ e.id = c.id
    /\ e.op \in {"ok", "error", "thrown"}

PushedFor(id) ==
    \E i \in DOMAIN log' : log'[i].src = "form" /\ log'[i].id = id /\ log'[i].op = "push"

\* C4: when the sign-in call of a submit succeeds, the form pushes
\* '/protected'; when it returns an error or throws, that submit pushes
\* nothing, leaves route and form where they are, and the form that made
\* the submit shows a non-empty error.
C4_SubmitOutcome ==
    [][ \A c \in calls : \A i \in DOMAIN NewEntries :
          (SettledNow(c) /\ AnswerNow(c, NewEntries[i])) =>
             IF NewEntries[i].op = "ok"
             THEN /\ PushedFor(c.id)
                  /\ pendingNav' = <<PROTECTED>>
             ELSE /\ ~ PushedFor(c.id)
                  /\ pendingNav' = pendingNav
                  /\ location' = location
                  /\ form'.mounted = form.mounted
                  /\ c.mine => (form'.mounted /\ Truthy(form'.error))
      ]_vars

C4_Witness ==
    /\ form.mounted
    /\ Truthy(form.error)
    /\ ~ form.loading
    /\ pendingNav = <<>>
    /\ location = AUTH_LOGIN
    /\ nSubmits = 1
    /\ calls = {}

\* C5: after a failed sign-in the error state of the form is the message of
\* the provider's error for that submit, unchanged.
C5_ErrorIsProviderMessage ==
    [][ \A i \in DOMAIN NewEntries :
          ( /\ NewEntries[i].src = "form"
            /\ NewEntries[i].op \in {"error", "thrown"}
            /\ NewEntries[i].live )
          => form'.error = <<NewEntries[i].arg>>
      ]_vars

C5_Witness ==
    /\ form.mounted
    /\ form.error = <<EMAIL_NOT_CONFIRMED>>
    /\ \E i \in DOMAIN log : log[i].op = "error" /\ log[i].arg = EMAIL_NOT_CONFIRMED

\* C6 as stated: a wrong password, answered by the provider with "Invalid
\* login credentials", shows the text handleAuthError maps that message to.
C6_TranslatedShown ==
    [][ \A i \in DOMAIN NewEntries :
          ( /\ NewEntries[i].src = "form"
            /\ NewEntries[i].op = "error"
            /\ NewEntries[i].arg = INVALID_LOGIN
            /\ NewEntries[i].live )
          => form'.error = <<handleAuthError(NewEntries[i].arg).message>>
      ]_vars

\* C6 amended: a wrong password, answered by the provider with "Invalid
\* login credentials", shows that text itself; the text handleAuthError
\* maps it to is not shown.
C6_RawInvalidLoginShown ==
    [][ \A c \in calls : \A i \in DOMAIN NewEntries :
          ( /\ SettledNow(c) /\ AnswerNow(c, NewEntries[i])
            /\ c.password = "wrong"
            /\ NewEntries[i].op = "error"
            /\ c.mine )
          => /\ NewEntries[i].arg = INVALID_LOGIN
             /\ form'.error = <<INVALID_LOGIN>>
             /\ form'.error # <<handleAuthError(INVALID_LOGIN).message>>
      ]_vars

C6_Witness ==
    /\ form.mounted
    /\ form.error = <<INVALID_LOGIN>>
    /\ form.password = "wrong"

\* C7 as stated: when the provider signs the user out while the browser
\* shows '/protected', the application refreshes and pushes '/auth/login'.
C7_SignedOutNavigates ==
    [][ (session /\ ~ session' /\ location = PROTECTED)
          => /\ pendingNav' = <<AUTH_LOGIN>>
             /\ \E i \in DOMAIN NewEntries : NewEntries[i].op = "refresh"
      ]_vars

\* C8: an AuthProvider instance holds at most one active subscription, the
\* one of its last effect run; after it is torn down it holds none, and no
\* notification is handled by a subscription of a torn-down instance or of
\* an earlier effect run.
C8_OneSubscription ==
    /\ Cardinality(subs) <= 1
    /\ ~ authProvider.mounted => subs = {}
    /\ (authProvider.mounted /\ authProvider.subscription # 0)
         => subs = {authProvider.subscription}
    /\ \A i \in DOMAIN log : log[i].src = "listener" => log[i].live

C8_Witness ==
    /\ ~ authProvider.mounted
    /\ nSubs = MaxSubs
    /\ subs = {}
    /\ \E i \in DOMAIN log : log[i].src = "listener" /\ log[i].id = 1
    /\ \E i \in DOMAIN log : log[i].src = "listener" /\ log[i].id = 2

\* The number of log entries of the form for submit id whose op is in ops.
RECURSIVE CountEntries(_, _, _)
CountEntries(entries, id, ops) ==
    IF entries = <<>> THEN 0
    ELSE CountEntries(Tail(entries), id, ops)
         + (IF Head(entries).src = "form" /\ Head(entries).id = id
               /\ Head(entries).op \in ops THEN 1 ELSE 0)

\* C11: every submit issues exactly one sign-in call, which is answered at
\* most once; a failure is put in the error state once and the call is not
\* issued again: the calls issued are as many as the submits.
C11_OneCallPerSubmit ==
    /\ \A id \in 1..nSubmits :
         /\ CountEntries(log, id, {"signIn"}) = 1
         /\ CountEntries(log, id, {"ok", "error", "thrown"})
              = (IF \E c \in calls : c.id = id THEN 0 ELSE 1)
         /\ CountEntries(log, id, {"setError"})
              = CountEntries(log, id, {"error", "thrown"})
         /\ Cardinality({c \in calls : c.id = id}) <= 1
    /\ \A i \in DOMAIN log : log[i].src = "form" => log[i].id \in 1..nSubmits
    /\ \A c \in calls : c.id \in 1..nSubmits

C11_Witness ==
    /\ nSubmits = 2
    /\ calls = {}
    /\ CountEntries(log, 1, {"error"}) = 1
    /\ CountEntries(log, 2, {"thrown"}) = 1
    /\ CountEntries(log, 1, {"signIn"}) = 1

\* Entry j of the log records that the sign-in call of submit id returned
\* without error.
ReturnedOk(j, id) ==
    log[j].src = "form" /\ log[j].id = id /\ log[j].op = "ok"

\* C12: the form calls router.refresh() and then router.push('/protected'),
\* both only after the sign-in call of that submit has returned without
\* error; the listener, on SIGNED_OUT, calls router.refresh() and then
\* router.push('/auth/login').
C12_RefreshBeforePush ==
    \A i \in DOMAIN log :
       /\ (log[i].src = "form" /\ log[i].op = "refresh")
            => \E j \in 1..(i - 1) : ReturnedOk(j, log[i].id)
       /\ (log[i].src = "form" /\ log[i].op = "push")
            => /\ log[i].arg = PROTECTED
               /\ i > 1
               /\ log[i - 1].src = "form" /\ log[i - 1].id = log[i].id
               /\ log[i - 1].op = "refresh"
               /\ \E j \in 1..(i - 1) : ReturnedOk(j, log[i].id)
               /\ \A j \in DOMAIN log :
                    (log[j].src = "form" /\ log[j].id = log[i].id)
                       => log[j].op \notin {"error", "thrown"}
       /\ (log[i].src = "listener" /\ log[i].op = "push")
            => /\ log[i].arg = AUTH_LOGIN
               /\ i > 1
               /\ log[i - 1].src = "listener" /\ log[i - 1].id = log[i].id
               /\ log[i - 1].op = "refresh"

C12_Witness ==
    /\ \E i \in DOMAIN log : log[i].src = "form" /\ log[i].op = "push"
    /\ \E i \in DOMAIN log : log[i].src = "listener" /\ log[i].op = "push"
    /\ \E i \in DOMAIN log : log[i].src = "form" /\ log[i].op = "setError"

\* C13: a submit sets the loading flag, which disables the submit control;
\* the step in which the sign-in call is answered (success, returned error
\* or thrown error) resets the flag, so the flag is set only while a call of
\* the form is awaiting its answer.
C13_LoadingResetOnSettle ==
    [][ /\ nSubmits' = nSubmits + 1
             => (form'.loading /\ SubmitDisabled(form'))
        /\ \A c \in calls :
             (SettledNow(c) /\ c.mine)
                => (form'.mounted /\ ~ form'.loading /\ ~ SubmitDisabled(form'))
        /\ (form'.mounted /\ form'.loading) => \E c \in calls' : c.mine
      ]_vars

C13_Witness ==
    /\ form.mounted
    /\ ~ form.loading
    /\ form.error = <<FAILED_TO_FETCH>>
    /\ nSubmits = 2
    /\ calls = {}
    /\ CountEntries(log, 1, {"ok"}) = 1
    /\ CountEntries(log, 2, {"thrown"}) = 1

\* C14: every submit clears the displayed error before the provider is
\* called, and the error stays cleared while the call is awaited; after a
\* successful submit the error is null, and the error displayed after a
\* failed submit is the message of that submit's own failure.
C14_ErrorIsOwn ==
    [][ /\ nSubmits' = nSubmits + 1 => form'.error = <<>>
        /\ \A c \in calls' : c.mine => form'.error = <<>>
        /\ \A c \in calls : \A i \in DOMAIN NewEntries :
             (SettledNow(c) /\ c.mine /\ AnswerNow(c, NewEntries[i]))
                => form'.error = (IF NewEntries[i].op = "ok"
                                  THEN <<>>
                                  ELSE <<NewEntries[i].arg>>)
      ]_vars

C14_Witness ==
    /\ form.mounted
    /\ form.error = <<>>
    /\ nSubmits = 2
    /\ calls = {}
    /\ CountEntries(log, 1, {"error"}) = 1
    /\ CountEntries(log, 2, {"ok"}) = 1

\* C15: LoginPage mirrors the guard: a request for '/auth/login' that
\* LoginPage answers with a session is redirected to '/protected' and no
\* form is rendered; without a session LoginPage renders the form and does
\* not redirect.
C15_LoginPageMirror ==
    (req.pc = "done" /\ req.res.by = "LoginPage")
       => /\ req.path = AUTH_LOGIN
          /\ req.pageSession \in {"present", "absent"}
          /\ req.pageSession = "present"
               => /\ req.res.kind = "redirect"
                  /\ req.res.url.pathname = PROTECTED
                  /\ req.res.url.search = <<>>
                  /\ ~ req.res.form
          /\ req.pageSession = "absent"
               => /\ req.res.kind = "render"
                  /\ req.res.page = "LoginPage"
                  /\ req.res.form

C15_Witness ==
    /\ req.pc = "done"
    /\ req.res.by = "LoginPage"
    /\ req.pageSession = "present"
    /\ req.res.kind = "redirect"
    /\ req.hops = 0

\* C16: no redirect loop: while every session read of a navigation returns
\* the same answer, the navigation is redirected at most once, and the
\* request that follows a redirect is answered by a page, not by another
\* redirect.
C16_NoRedirectLoop ==
    Cardinality(req.reads) <= 1
       => /\ req.hops <= 1
          /\ (req.hops = 1 /\ req.pc = "done")
                => req.res.kind \in {"render", "notFound"}

C16_Witness ==
    /\ req.pc = "done"
    /\ req.hops = 1
    /\ req.reads = {"present"}
    /\ req.path = PROTECTED
    /\ req.res.kind = "render"

\* The position in the log of the submit that issued call id.
SubmitIndex(id) ==
    CHOOSE i \in DOMAIN log :
       log[i].src = "form" /\ log[i].id = id /\ log[i].op = "signIn"

\* Another call of the mounted form was answered after call id was issued.
AnsweredSince(id) ==
    \E i \in DOMAIN log :
       /\ i > SubmitIndex(id)
       /\ log[i].src = "form"
       /\ log[i].live
       /\ log[i].op \in {"ok", "error", "thrown"}

\* C17 as stated: whenever a sign-in call of the form is in flight the
\* loading flag is set and no second call of the form is in flight, also
\* when two submits overlap.
C17_LoadingTracksInFlight ==
    /\ \A c \in calls : c.mine => form.loading
    /\ Cardinality({c \in calls : c.mine}) <= 1

\* C17 amended: a call of the form that is in flight keeps the loading flag
\* set only until some call of the form is answered: the answer to any call
\* of the form resets the flag, also while another call of the form is
\* still in flight, so the flag does not bound the calls in flight once
\* two submits overlap.
C17_LoadingUntilFirstAnswer ==
    /\ \A c \in calls : (c.mine /\ ~ AnsweredSince(c.id)) => form.loading
    /\ (form.mounted /\ ~ form.loading /\ \E c \in calls : c.mine)
          => \E c \in calls : c.mine /\ AnsweredSince(c.id)

C17_Witness ==
    /\ form.mounted
    /\ ~ form.loading
    /\ \E c \in calls : c.mine /\ c.id = 2 /\ AnsweredSince(2)
    /\ CountEntries(log, 1, {"ok", "error", "thrown"}) = 1

\* C18: the return target the Route Guard records is never consumed: every
\* navigation the form pushes after a sign-in goes to '/protected',
\* whatever redirectTo the login URL carries, and every redirect LoginPage
\* answers with goes to '/protected' without a query, whatever redirectTo
\* the request carries.
C18_ReturnTargetUnused ==
    /\ \A i \in DOMAIN log :
         (log[i].src = "form" /\ log[i].op = "push") => log[i].arg = PROTECTED
    /\ pendingNav # <<>> => pendingNav = <<PROTECTED>>
    /\ (req.pc = "done" /\ req.res.by = "LoginPage" /\ req.res.kind = "redirect")
          => req.res.url = [pathname |-> PROTECTED, search |-> <<>>]

C18_Witness ==
    /\ SearchParamsGet(query, REDIRECT_TO) = <<PROTECTED_SUB>>
    /\ \E i \in DOMAIN log : log[i].src = "form" /\ log[i].op = "push"
    /\ pendingNav = <<PROTECTED>>
    /\ req.pc = "done"
    /\ req.res.by = "LoginPage"
    /\ req.res.kind = "redirect"
    /\ SearchParamsGet(req.search, REDIRECT_TO) = <<ROOT>>

====
